---- MODULE Spec2Model ----
(***************************************************************************)
(* PyCorrFit, FittingPanel (src/src/page.py): channel cropping, background *)
(* correction and the fit pipeline of one notebook page.                   *)
(*                                                                         *)
(* Conventions                                                             *)
(*  - Python None is the record None; an optional value v is Some(v).      *)
(*  - numpy arrays are objects on a heap: a field holds a reference (the   *)
(*    name of an allocation site) and heap maps references to contents, so *)
(*    that `1*a` (a new array) and `a` (the same array) are different.     *)
(*  - float64 values are exact rationals [n, d] with d = 0 for the IEEE    *)
(*    specials: 1/0 is inf, -1/0 is -inf, 0/0 is nan (rounding and the     *)
(*    sign of zero are not modelled).                                      *)
(*  - Sequences are 1-based; Python indices are kept 0-based in startcrop, *)
(*    endcrop and bgselected and converted where they are used.            *)
(***************************************************************************)
EXTENDS Integers, Sequences, FiniteSets, TLC

VARIABLES
    heap,          \* contents of the numpy arrays, by reference
    dataexpfull,   \* self.dataexpfull: reference or NoRef
    dataexp,       \* self.dataexp: reference or NoRef
    taufull,       \* self.taufull (lag times, by value)
    tau,           \* self.tau
    startcrop,     \* self.startcrop: None or Some(int)
    endcrop,       \* self.endcrop: None or Some(int)
    trace,         \* self.trace: None or Some(intensities)
    traceavg,      \* self.traceavg: None or Some(rational)
    bgselected,    \* self.bgselected: None or Some(0-based index)
    bgcorrect,     \* self.bgcorrect: rational
    parms,         \* self.active_parms[1]: parameter values
    tofit,         \* self.active_parms[2]: fit mask
    spin,          \* values shown in self.spincontrol
    checks,        \* values shown in self.checkboxes
    datacorr,      \* self.datacorr: None or Some(array)
    resid,         \* self.resid: None or Some(array)
    chi2,          \* self.chi2: None or Some(statistic)
    ret,           \* reference returned by the last direct CorrectDataexp call
    retsrc,        \* the reference that call was given
    loaded,        \* the measured series as it was when it was loaded
    cropin,        \* <<startcrop, endcrop>> the last PlotAll call started with
    op,            \* the operation that ran last
    raised,        \* the exception that operation left to its caller
    reps,          \* consecutive runs of that operation, capped at MaxReps
    weightedfitdrop, \* self.Fitbox[1]: its selection, text and spline item
    varenabled,    \* self.Fitbox[2..5] are enabled
    fitspin,       \* self.Fitbox[5].GetValue()
    FitKnots,      \* self.FitKnots
    spinasked,     \* the number that was last entered into self.Fitbox[5]
    phase,         \* where Fit_function is: Idle when it is not running
    Fitting,       \* the local Fitting of Fit_function: None or Some(fit)
    depth,         \* Fit_function invocations that began and did not return
    pending,       \* Fit button events waiting in the event queue
    busy,          \* busy cursors begun and not ended
    notebook,      \* parent.notebook: the pages, in the order of the tabs
    curpage,       \* Stat.Page: 0 (no page) or the index of a notebook page
    Checklabels,   \* Stat.Checklabels
    Checkboxes,    \* Stat.Checkboxes: the boxes that are checked
    SaveInfo,      \* Stat.SaveInfo: None or Some(rows)
    rowsof,        \* for each row of SaveInfo, the notebook page it is from
    InfoDict       \* what GetPageInfo last returned for this page, or None

(* the widgets of the fit box *)
fitbox == <<weightedfitdrop, varenabled, fitspin, FitKnots>>

(* the state of a running Fit_function and of the event loop *)
handler == <<phase, Fitting, depth, pending, busy>>

(* the fields of the page *)
fields == <<heap, dataexpfull, dataexp, taufull, tau, startcrop, endcrop,
            trace, traceavg, bgselected, bgcorrect, parms, tofit, spin,
            checks, datacorr, resid, chi2, raised, ret, retsrc, loaded>>

(* the notebook and the statistics tool *)
stat == <<notebook, curpage, Checklabels, Checkboxes, SaveInfo, rowsof,
          InfoDict>>

vars == <<heap, dataexpfull, dataexp, taufull, tau, startcrop, endcrop,
          trace, traceavg, bgselected, bgcorrect, parms, tofit, spin,
          checks, datacorr, resid, chi2, ret, retsrc, loaded, cropin,
          op, raised, reps, weightedfitdrop, varenabled, fitspin, FitKnots,
          spinasked, phase, Fitting, depth, pending, busy, notebook,
          curpage, Checklabels, Checkboxes, SaveInfo, rowsof, InfoDict>>

-----------------------------------------------------------------------------
(* Bounds *)

MaxLen == 2
MaxReps == 2
MaxPending == 2
MaxPages == 2
MaxBusy == 2

-----------------------------------------------------------------------------
(* Python values *)

None == [none |-> TRUE]
Some(x) == [v |-> x]

NoRef == "None"
Objs == {"full", "crop", "corr", "fit", "ret"}

(* float64 as rationals in lowest terms; d = 0 encodes inf, -inf and nan *)
Abs(a) == IF a < 0 THEN -a ELSE a
Sign(a) == IF a < 0 THEN -1 ELSE IF a > 0 THEN 1 ELSE 0

RECURSIVE GCD(_, _)
GCD(a, b) == IF b = 0 THEN a ELSE GCD(b, a % b)

Rat(n, d) ==
    IF d = 0 THEN [n |-> Sign(n), d |-> 0]
    ELSE LET g == GCD(Abs(n), Abs(d))
         IN  [n |-> (Sign(d) * n) \div g, d |-> Abs(d) \div g]

RInt(k) == Rat(k, 1)
RSub(a, b) == Rat(a.n * b.d - b.n * a.d, a.d * b.d)
RMul(a, b) == Rat(a.n * b.n, a.d * b.d)
RDiv(a, b) == Rat(a.n * b.d * (IF b.n < 0 THEN -1 ELSE 1), a.d * Abs(b.n))
IsFinite(a) == a.d # 0

RECURSIVE Sum(_)
Sum(s) == IF s = <<>> THEN 0 ELSE Head(s) + Sum(Tail(s))

(* numpy: a[:,1].mean() *)
Mean(s) == Rat(Sum(s), Len(s))

(* first column of an N x 2 array *)
Col0(a) == [i \in 1..Len(a) |-> a[i].x]

Min(a, b) == IF a < b THEN a ELSE b
Max(a, b) == IF a > b THEN a ELSE b

-----------------------------------------------------------------------------
(* Inputs: what is loaded into the page from outside this class *)

(* y-values of the measured curves; the first is the curve 10, 9, 11, 10 *)
ExampleY == <<10, 9, 11, 10>>

Measured(n) ==
    [i \in 1..n |-> [x |-> i, y |-> RInt(ExampleY[((i - 1) % 4) + 1])]]

SeriesSet == {Measured(n) : n \in 1..MaxLen}

(* the tau array the page is constructed with *)
CtorTau == [i \in 1..MaxLen |-> 100 * i]

(* values startcrop and endcrop can be given by the tools and the session *)
(* loader: None or an integer, inside or outside of the series            *)
CropVals == {None} \cup {Some(k) : k \in (-(MaxLen + 1))..(MaxLen + 1)}

(* intensity traces (second column) *)
TraceSet == {<<100, 100>>, <<50>>}

(* parent.Background: the rates, element [0] of each entry *)
Background == <<50, 0>>

(* the parameters the page is constructed with, and what the solver finds *)
CtorParms == <<1, 0>>
CtorToFit == <<TRUE, FALSE>>
OptimSet == {<<2, -1>>}

(* what a caller writes into an array it was handed *)
Overwrite == RInt(7)

(* self.active_parms[0]: the names of the parameters *)
CtorLabels == <<"n", "taudiff">>

(* values the solver tries before it returns *)
TrialSet == {<<3, -2>>}

(* a number the user enters into a parameter's spin control *)
SpinEntries == {-3}

(* texts the user types into the weights box, numbers entered into the   *)
(* variance spin control                                                  *)
KnotTexts == {<<"7">>, <<"7", "x">>, <<"x">>, <<>>, <<"0">>, <<"1", "2">>}
FitspinEntries == {0, 5, 101}

-----------------------------------------------------------------------------
(* numpy indexing *)

(* bound of a slice a[s:e] on an axis of length n *)
SliceBound(c, n, dflt) ==
    IF c = None THEN dflt
    ELSE IF c.v < 0 THEN Max(c.v + n, 0) ELSE Min(c.v, n)

(* a[s:e] with the end taken as the last element *)
PySliceInclusive(a, s, e) ==
    LET lo == SliceBound(s, Len(a), 0)
        hi == Min(SliceBound(e, Len(a), Len(a)) + 1, Len(a))
    IN  IF lo >= hi THEN <<>> ELSE SubSeq(a, lo + 1, hi)

(* a[s:e] *)
PySlice(a, s, e) ==
    LET lo == SliceBound(s, Len(a), 0)
        hi == SliceBound(e, Len(a), Len(a))
    IN  IF lo >= hi THEN <<>> ELSE SubSeq(a, lo + 1, hi)

(* a[c] raises IndexError; a[None] is a new axis and does not raise *)
IndexRaises(c, n) == c # None /\ (c.v >= n \/ c.v < -n)

(* self.taufull[self.startcrop]; self.taufull[self.endcrop-1] raises:    *)
(* IndexError out of bounds, TypeError for None - 1                       *)
CropCheckRaises(s, e, n) ==
    \/ IndexRaises(s, n)
    \/ e = None
    \/ IndexRaises(Some(e.v - 1), n)

-----------------------------------------------------------------------------
(* Text: a str is the sequence of its characters *)

Digits == {"0", "1", "2", "3", "4", "5", "6", "7", "8", "9"}

(* x.isdigit() for one character *)
isdigit(x) == x \in Digits

(* filter(lambda x: x.isdigit(), text) *)
FilterDigits(text) == SelectSeq(text, isdigit)

DigitVal(x) ==
    CASE x = "0" -> 0 [] x = "1" -> 1 [] x = "2" -> 2 [] x = "3" -> 3
      [] x = "4" -> 4 [] x = "5" -> 5 [] x = "6" -> 6 [] x = "7" -> 7
      [] x = "8" -> 8 [] x = "9" -> 9

(* int(text) for a text of digits *)
RECURSIVE IntOf(_)
IntOf(text) ==
    IF text = <<>> THEN 0
    ELSE 10 * IntOf(SubSeq(text, 1, Len(text) - 1))
           + DigitVal(text[Len(text)])

(* self.weightlist *)
NoWeights == <<"N", "o", " ", "w", "e", "i", "g", "h", "t", "s">>
ModelFunction ==
    <<"M", "o", "d", "e", "l", " ", "f", "u", "n", "c", "t", "i", "o", "n">>

(* "Spline ("+Knots+" knots)" *)
SplineItem(Knots) ==
    <<"S", "p", "l", "i", "n", "e", " ", "(">> \o Knots
        \o <<" ", "k", "n", "o", "t", "s", ")">>

(* self.Fitbox[1].GetItems() *)
GetItems(drop) == <<NoWeights, drop.spline, ModelFunction>>

(* wx.SpinCtrl(min=1, max=100): the range of self.Fitbox[5] *)
SpinMin == 1
SpinMax == 100

(* what the spin control holds after n was entered *)
SpinCtrlValue(n) == Max(SpinMin, Min(n, SpinMax))

-----------------------------------------------------------------------------
(* The page as one value, so that a method can be applied to the result of *)
(* another                                                                 *)

Page ==
    [heap |-> heap, dataexpfull |-> dataexpfull, dataexp |-> dataexp,
     taufull |-> taufull, tau |-> tau, startcrop |-> startcrop,
     endcrop |-> endcrop, trace |-> trace, traceavg |-> traceavg,
     bgselected |-> bgselected, bgcorrect |-> bgcorrect, parms |-> parms,
     tofit |-> tofit, spin |-> spin, checks |-> checks,
     datacorr |-> datacorr, resid |-> resid, chi2 |-> chi2,
     weightedfitdrop |-> weightedfitdrop, varenabled |-> varenabled,
     fitspin |-> fitspin, FitKnots |-> FitKnots,
     raised |-> "none"]

(* arrays no field refers to are garbage *)
Collect(h, live) == [o \in Objs |-> IF o \in live THEN h[o] ELSE <<>>]

InstallKeeping(q, r) ==
    /\ heap' = Collect(q.heap, {q.dataexpfull, q.dataexp, r})
    /\ dataexpfull' = q.dataexpfull
    /\ dataexp' = q.dataexp
    /\ taufull' = q.taufull
    /\ tau' = q.tau
    /\ startcrop' = q.startcrop
    /\ endcrop' = q.endcrop
    /\ trace' = q.trace
    /\ traceavg' = q.traceavg
    /\ bgselected' = q.bgselected
    /\ bgcorrect' = q.bgcorrect
    /\ parms' = q.parms
    /\ tofit' = q.tofit
    /\ spin' = q.spin
    /\ checks' = q.checks
    /\ datacorr' = q.datacorr
    /\ resid' = q.resid
    /\ chi2' = q.chi2
    /\ weightedfitdrop' = q.weightedfitdrop
    /\ varenabled' = q.varenabled
    /\ fitspin' = q.fitspin
    /\ FitKnots' = q.FitKnots
    /\ raised' = q.raised

Install(q) == InstallKeeping(q, ret)

Count(name) == IF op = name THEN Min(reps + 1, MaxReps) ELSE 1

Ran(name) ==
    /\ op' = name
    /\ reps' = Count(name)
    /\ cropin' = IF name = "PlotAll" THEN <<startcrop, endcrop>> ELSE <<>>

-----------------------------------------------------------------------------
(* The model function and its parameter check (module models), the        *)
(* statistic of the fit class (module leastsquaresfit)                     *)

(* self.check_parms *)
check_parms(values) == [i \in 1..Len(values) |-> Abs(values[i])]

(* self.active_fct(parameters, tau) *)
active_fct(values, t) == [i \in 1..Len(t) |-> RInt(values[1] + values[2] * t[i])]

(* Fitting.ApplyParameters: the data inside Fitting.interval *)
FittingData(h, fitting) ==
    IF fitting.dataexpfull = NoRef THEN <<>>
    ELSE PySlice(h[fitting.dataexpfull], fitting.interval[1],
                 fitting.interval[2])

(* Fitting.get_chi_squared() and Fitting.chi: a statistic of the values    *)
(* and of the data inside the interval                                     *)
Chi(values, data) == [values |-> values, data |-> data]

-----------------------------------------------------------------------------
(* FittingPanel.CorrectDataexp *)

(* modified = dataexp : the array itself *)
ModifiedAlias(h, src, dst) == [heap |-> h, ref |-> src]

(* modified = 1 * dataexp : a new array at dst *)
Modified(h, src, dst) == [heap |-> [h EXCEPT ![dst] = h[src]], ref |-> dst]

(* S/(S-B) *)
FactorNotSquared(S, B) == RDiv(S, RSub(S, B))

(* (S/(S-B))**2 *)
Factor(S, B) == LET q == RDiv(S, RSub(S, B)) IN RMul(q, q)

(* modified[:,1] = modified[:,1] * self.bgcorrect *)
Scale(a, f) == [i \in 1..Len(a) |-> [x |-> a[i].x, y |-> RMul(a[i].y, f)]]

(* what self.bgcorrect is after the call *)
NewBgcorrect(p) ==
    IF p.bgselected # None /\ p.traceavg # None
    THEN Factor(p.traceavg.v, RInt(Background[p.bgselected.v + 1]))
    ELSE p.bgcorrect

(* self.CorrectDataexp(src) on page p; the result is allocated at dst *)
CorrectDataexp(p, src, dst) ==
    IF src = NoRef
    THEN [page |-> p, ref |-> NoRef]
    ELSE LET m == Modified(p.heap, src, dst)
             f == NewBgcorrect(p)
         IN  IF p.bgselected # None /\ p.traceavg # None
             THEN [page |-> [p EXCEPT !.bgcorrect = f,
                                      !.heap = [m.heap EXCEPT
                                                   ![m.ref] = Scale(@, f)]],
                   ref |-> m.ref]
             ELSE [page |-> [p EXCEPT !.heap = m.heap], ref |-> m.ref]

-----------------------------------------------------------------------------
(* FittingPanel.apply_parameters, calculate_corr, Fit_create_instance *)

apply_parameters(p) ==
    LET checked == check_parms(p.spin)
    IN  [p EXCEPT !.parms = checked, !.tofit = p.checks, !.spin = checked]

(* the values of the parameters that are fitted only *)
FittedOnly(values, mask) ==
    LET RECURSIVE take(_)
        take(i) == IF i > Len(values) THEN <<>>
                   ELSE (IF mask[i] THEN <<values[i]>> ELSE <<>>) \o take(i + 1)
    IN  take(1)

(* apply_parameters_reverse keeping the fitted parameters only *)
apply_parameters_reverseFitted(p) ==
    LET checked == check_parms(FittedOnly(p.parms, p.tofit))
    IN  [p EXCEPT !.parms = checked, !.spin = checked, !.checks = p.tofit]

apply_parameters_reverse(p) ==
    LET checked == check_parms(p.parms)
    IN  [p EXCEPT !.parms = checked, !.spin = checked, !.checks = p.tofit]

(* calculate_corr over every lag time of the series *)
calculate_corrFull(p) ==
    LET y == active_fct(p.parms, p.taufull)
    IN  [p EXCEPT !.datacorr =
            Some([i \in 1..Len(p.taufull) |->
                     [x |-> p.taufull[i], y |-> y[i]]])]

(* lines 195-217 *)
calculate_corr(p) ==
    LET y == active_fct(p.parms, p.tau)
    IN  [p EXCEPT !.datacorr =
            Some([i \in 1..Len(p.tau) |-> [x |-> p.tau[i], y |-> y[i]]])]

(* a itself *)
Aliased(a) == [v |-> a, shared |-> TRUE]

(* 1*a: a new list or array with the elements of a *)
Copied(a) == [v |-> a, shared |-> FALSE]

(* Fitting.fittype: "spline"+Knots, "model function", or what fit.Fit()    *)
(* starts with                                                             *)
FitType(kind, Knots) == [kind |-> kind, Knots |-> Knots]

(* lines 266-277: the user edited the knot number *)
EditedKnots(drop) ==
    LET typed == FilterDigits(drop.value)
    IN  IF typed = <<>> THEN <<"5">> ELSE typed

(* lines 266-291 on the combo box of page p *)
Weighting(p) ==
    LET d == p.weightedfitdrop
        d1 == IF d.selection = -1
              THEN [selection |-> 1,
                    value |-> SplineItem(EditedKnots(d)),
                    spline |-> SplineItem(EditedKnots(d))]
              ELSE d
        Knots == FilterDigits(d1.value)
    IN  [drop |-> d1,
         FitKnots |-> IF d1.selection = 1 THEN Knots ELSE p.FitKnots,
         fittype |-> IF d1.selection = 1 THEN FitType("spline", Knots)
                     ELSE IF d1.selection = 2
                          THEN FitType("model function", <<>>)
                          ELSE FitType("default", <<>>)]

Fit_create_instance(p) ==
    LET r == CorrectDataexp(p, p.dataexpfull, "fit")
        w == Weighting(p)
    IN  [page |-> [r.page EXCEPT !.weightedfitdrop = w.drop,
                                 !.FitKnots = w.FitKnots],
         fitting |-> [dataexpfull |-> r.ref,
                      fittype |-> w.fittype,
                      interval |-> <<p.startcrop, p.endcrop>>,
                      values |-> Copied(p.parms),
                      valuestofit |-> Copied(p.tofit),
                      weights |-> p.fitspin]]

-----------------------------------------------------------------------------
(* FittingPanel.PlotAll *)

(* CropData without the branch for startcrop == endcrop *)
CropDataNoSentinel(p) ==
    LET full == p.heap[p.dataexpfull]
        n == Len(full)
        cut == PySlice(full, p.startcrop, p.endcrop)
        bad == CropCheckRaises(p.startcrop, p.endcrop, n)
        exp2 == IF bad \/ cut = <<>> THEN full ELSE cut
    IN  [p EXCEPT !.startcrop = IF bad THEN Some(0) ELSE p.startcrop,
                  !.endcrop = IF bad THEN Some(n) ELSE p.endcrop,
                  !.taufull = Col0(full),
                  !.tau = Col0(exp2),
                  !.dataexp = "crop",
                  !.heap = [p.heap EXCEPT !["crop"] = exp2]]

(* CropData cutting the series it cut before instead of the full one *)
CropDataCumulative(p) ==
    LET full == p.heap[p.dataexpfull]
        n == Len(full)
        source == IF p.dataexp # NoRef THEN p.heap[p.dataexp] ELSE full
        same == (p.startcrop = p.endcrop)
        cut == PySlice(source, p.startcrop, p.endcrop)
        exp1 == IF same \/ cut = <<>> THEN source ELSE cut
        sc1 == IF same THEN Some(0) ELSE p.startcrop
        ec1 == IF same THEN Some(n) ELSE p.endcrop
        bad == CropCheckRaises(sc1, ec1, n)
        exp2 == IF bad THEN source ELSE exp1
    IN  [p EXCEPT !.startcrop = IF bad THEN Some(0) ELSE sc1,
                  !.endcrop = IF bad THEN Some(n) ELSE ec1,
                  !.taufull = Col0(full),
                  !.tau = Col0(exp2),
                  !.dataexp = "crop",
                  !.heap = [p.heap EXCEPT !["crop"] = exp2]]

(* lines 398-422: channel selection, the page has experimental data *)
CropData(p) ==
    LET full == p.heap[p.dataexpfull]
        n == Len(full)
        same == (p.startcrop = p.endcrop)
        cut == PySlice(full, p.startcrop, p.endcrop)
        exp1 == IF same \/ cut = <<>> THEN full ELSE cut
        sc1 == IF same THEN Some(0) ELSE p.startcrop
        ec1 == IF same THEN Some(n) ELSE p.endcrop
        bad == CropCheckRaises(sc1, ec1, n)
        exp2 == IF bad THEN full ELSE exp1
    IN  [p EXCEPT !.startcrop = IF bad THEN Some(0) ELSE sc1,
                  !.endcrop = IF bad THEN Some(n) ELSE ec1,
                  !.taufull = Col0(full),
                  !.tau = Col0(exp2),
                  !.dataexp = "crop",
                  !.heap = [p.heap EXCEPT !["crop"] = exp2]]

(* lines 423-436: channel selection, no experimental data *)
CropNoData(p) ==
    LET n == Len(p.taufull)
        bad == CropCheckRaises(p.startcrop, p.endcrop, n)
    IN  [p EXCEPT !.startcrop = IF bad THEN Some(0) ELSE p.startcrop,
                  !.endcrop = IF bad THEN Some(n) ELSE p.endcrop,
                  !.tau = IF bad THEN p.taufull
                          ELSE PySlice(p.taufull, p.startcrop, p.endcrop)]

Crop(p) == IF p.dataexpfull # NoRef THEN CropData(p) ELSE CropNoData(p)

(* lines 445-450: trace average and background correction *)
Correct(p) ==
    LET p1 == IF p.trace # None
              THEN [p EXCEPT !.traceavg = Some(Mean(p.trace.v))]
              ELSE p
        r == CorrectDataexp(p1, p1.dataexp, "corr")
    IN  [r.page EXCEPT !.dataexp = r.ref]

(* lines 493-495 *)
Residuals(p) ==
    LET e == p.heap[p.dataexp]
        c == p.datacorr.v
    IN  [p EXCEPT !.resid =
            Some([i \in 1..Len(p.tau) |->
                     [x |-> p.tau[i], y |-> RSub(e[i].y, c[i].y)]])]

(* lines 505-508 *)
InitialChi2(p) ==
    IF p.chi2 # None THEN p
    ELSE LET f == Fit_create_instance(p)
         IN  [f.page EXCEPT !.chi2 =
                 Some(Chi(f.fitting.values.v,
                          FittingData(f.page.heap, f.fitting)))]

PlotAllOn(p) ==
    LET p1 == calculate_corr(apply_parameters(Correct(Crop(p))))
    IN  IF p1.tau = <<>> THEN [p1 EXCEPT !.raised = "IndexError"]
        ELSE IF p1.dataexp = NoRef THEN p1
        ELSE InitialChi2(Residuals(p1))

PlotAll ==
    /\ Install(PlotAllOn(Page))
    /\ Ran("PlotAll")
    /\ UNCHANGED <<stat, ret, retsrc, loaded, spinasked, handler>>

-----------------------------------------------------------------------------
(* FittingPanel.Fit_function *)

(* lines 319-325: the solver returned valuesoptim and chi *)
Fitted(p, valuesoptim, chi) ==
    PlotAllOn([p EXCEPT !.chi2 = Some(chi),
                        !.parms = valuesoptim,
                        !.spin = valuesoptim])

Fit_functionOn(p, ok, valuesoptim) ==
    LET f == Fit_create_instance(apply_parameters(p))
    IN  IF ~ok THEN f.page
        ELSE Fitted(f.page, valuesoptim,
                    Chi(valuesoptim, FittingData(f.page.heap, f.fitting)))

(* the Fit button is enabled once data has been loaded *)
Fit_function(ok, valuesoptim) ==
    /\ dataexpfull # NoRef
    /\ Install(Fit_functionOn(Page, ok, valuesoptim))
    /\ Ran("Fit_function")
    /\ UNCHANGED <<stat, ret, retsrc, loaded, spinasked, handler>>

-----------------------------------------------------------------------------
(* Direct calls *)

(* a caller keeps what self.CorrectDataexp(src) returned *)
CallCorrectDataexp(src) ==
    LET r == CorrectDataexp(Page, src, "ret")
    IN  /\ ret' = r.ref
        /\ retsrc' = src
        /\ InstallKeeping(r.page, r.ref)
        /\ Ran("CorrectDataexp")
        /\ UNCHANGED <<stat, loaded, spinasked, handler>>

(* ... and writes into it *)
MutateRet ==
    /\ ret # NoRef
    /\ heap[ret][1].y # Overwrite
    /\ heap' = [heap EXCEPT ![ret][1].y = Overwrite]
    /\ Ran("MutateRet")
    /\ raised' = "none"
    /\ UNCHANGED <<stat, dataexpfull, dataexp, taufull, tau, startcrop, endcrop,
                   trace, traceavg, bgselected, bgcorrect, parms, tofit,
                   spin, checks, datacorr, resid, chi2, ret, retsrc, loaded,
                   fitbox, spinasked, handler>>

(* the global fit tool builds the fit instance of a page with data *)
CallFit_create_instance ==
    /\ dataexpfull # NoRef
    /\ Install(Fit_create_instance(Page).page)
    /\ Ran("Fit_create_instance")
    /\ UNCHANGED <<stat, ret, retsrc, loaded, spinasked, handler>>

-----------------------------------------------------------------------------
(* Operations of the other modules on the page's fields *)

(* a measured curve is loaded into the page; a page is given its curve once *)
ImportData(s) ==
    /\ dataexpfull = NoRef
    /\ Install([Page EXCEPT !.dataexpfull = "full", !.heap["full"] = s])
    /\ loaded' = s
    /\ Ran("ImportData")
    /\ UNCHANGED <<stat, ret, retsrc, spinasked, handler>>

(* channel selection, session *)
SetCrop(s, e) ==
    /\ Install([Page EXCEPT !.startcrop = s, !.endcrop = e])
    /\ Ran("SetCrop")
    /\ UNCHANGED <<stat, ret, retsrc, loaded, spinasked, handler>>

(* a trace is loaded or replaced *)
SetTrace(t) ==
    /\ Install([Page EXCEPT !.trace = Some(t)])
    /\ Ran("SetTrace")
    /\ UNCHANGED <<stat, ret, retsrc, loaded, spinasked, handler>>

(* background tool: a background is selected (Some(b)) or deselected (None) *)
SelectBackground(b) ==
    /\ Install([Page EXCEPT !.bgselected = b])
    /\ Ran("SelectBackground")
    /\ UNCHANGED <<stat, ret, retsrc, loaded, spinasked, handler>>

-----------------------------------------------------------------------------
(* Fit_function, statement by statement, as a handler of the wx main loop *)

(* a handler is called while another one has not returned *)
DispatchableAlways == TRUE

(* the main loop calls one handler after the other *)
Dispatchable == phase = "Idle"

(* the Fit button is pressed; the event waits for the main loop *)
ClickFit ==
    /\ dataexpfull # NoRef
    /\ pending < MaxPending
    /\ pending' = pending + 1
    /\ UNCHANGED <<stat, heap, dataexpfull, dataexp, taufull, tau, startcrop,
                   endcrop, trace, traceavg, bgselected, bgcorrect, parms,
                   tofit, spin, checks, datacorr, resid, chi2, ret, retsrc,
                   loaded, cropin, op, raised, reps, fitbox, spinasked,
                   phase, Fitting, depth, busy>>

(* Fit_function calling the solver before the fit instance is built *)
FitBeginSolver ==
    /\ Dispatchable
    /\ pending > 0
    /\ pending' = pending - 1
    /\ depth' = depth + 1
    /\ busy' = busy + 1
    /\ phase' = "Running"
    /\ Install(apply_parameters(Page))
    /\ Ran("apply_parameters")
    /\ UNCHANGED <<stat, ret, retsrc, loaded, spinasked, Fitting>>

(* lines 301-307: wx.BeginBusyCursor(), self.apply_parameters() *)
FitBegin ==
    /\ Dispatchable
    /\ pending > 0
    /\ pending' = pending - 1
    /\ depth' = depth + 1
    /\ busy' = busy + 1
    /\ phase' = "Configuring"
    /\ Install(apply_parameters(Page))
    /\ Ran("apply_parameters")
    /\ UNCHANGED <<stat, ret, retsrc, loaded, spinasked, Fitting>>

(* line 297, Fitting.ApplyParameters(): the fit instance holds its data *)
ApplyParameters(h, fitting) ==
    [dataexpfull |-> h[fitting.dataexpfull],
     data |-> FittingData(h, fitting),
     fittype |-> fitting.fittype,
     interval |-> fitting.interval,
     values |-> fitting.values,
     valuestofit |-> fitting.valuestofit,
     weights |-> fitting.weights,
     valuesoptim |-> None,
     chi |-> None]

(* line 309: Fitting = self.Fit_create_instance() *)
FitConfigure ==
    /\ phase = "Configuring"
    /\ \E f \in {Fit_create_instance(Page)} :
           /\ Install(f.page)
           /\ Fitting' = Some(ApplyParameters(f.page.heap, f.fitting))
    /\ phase' = "Running"
    /\ Ran("Fit_create_instance")
    /\ UNCHANGED <<stat, ret, retsrc, loaded, spinasked, depth, pending, busy>>

(* the solver writes v into Fitting.values; the page's array is written   *)
(* with it if it is the same array                                         *)
SolverWrites(v) ==
    Install([Page EXCEPT !.parms = IF Fitting.v.values.shared
                                   THEN v ELSE parms])

(* line 311, Fitting.least_square(): the solver tries v *)
least_squareTries(v) ==
    /\ phase = "Running"
    /\ Fitting.v.values.v # v
    /\ Fitting' = Some([Fitting.v EXCEPT !.values.v = v])
    /\ SolverWrites(v)
    /\ Ran("least_square")
    /\ UNCHANGED <<stat, ret, retsrc, loaded, spinasked, phase, depth, pending,
                   busy>>

(* line 311: the solver returns valuesoptim (ok) or raises ValueError *)
least_squareReturns(ok, valuesoptim) ==
    /\ phase = "Running"
    /\ IF ok
       THEN /\ Fitting' = Some([Fitting.v EXCEPT
                                   !.values.v = valuesoptim,
                                   !.valuesoptim = Some(valuesoptim),
                                   !.chi = Some(Chi(valuesoptim,
                                                    Fitting.v.data))])
            /\ SolverWrites(valuesoptim)
            /\ phase' = "Succeeded"
       ELSE /\ Fitting' = Fitting
            /\ Install(Page)
            /\ phase' = "Failed"
    /\ Ran("least_square")
    /\ UNCHANGED <<stat, ret, retsrc, loaded, spinasked, depth, pending, busy>>

(* lines 310-312: the solver raises an exception that is no ValueError;   *)
(* no except clause takes it and it leaves Fit_function to the main loop   *)
least_squareRaises(exc) ==
    /\ phase = "Running"
    /\ busy <= MaxBusy
    /\ Install([Page EXCEPT !.raised = exc])
    /\ phase' = "Idle"
    /\ depth' = depth - 1
    /\ Fitting' = None
    /\ Ran("Fit_function")
    /\ UNCHANGED <<stat, ret, retsrc, loaded, spinasked, pending, busy>>

(* lines 319-327 *)
FitSucceeded ==
    /\ phase = "Succeeded"
    /\ \E q \in {Fitted(Page, Fitting.v.valuesoptim.v, Fitting.v.chi.v)} :
           /\ Install(q)
           /\ busy' = IF q.raised = "none" THEN busy - 1 ELSE busy
    /\ phase' = "Idle"
    /\ depth' = depth - 1
    /\ Fitting' = None
    /\ Ran("Fit_function")
    /\ UNCHANGED <<stat, ret, retsrc, loaded, spinasked, pending>>

(* lines 312-318 without the return: the code after the try is run *)
FailedNoReturn(p) ==
    PlotAllOn([p EXCEPT !.parms = Fitting.v.values.v,
                        !.spin = Fitting.v.values.v])

(* lines 312-318: print, wx.EndBusyCursor(), return *)
Failed(p) == p

FitFailed ==
    /\ phase = "Failed"
    /\ \E q \in {Failed(Page)} : Install(q)
    /\ busy' = busy - 1
    /\ phase' = "Idle"
    /\ depth' = depth - 1
    /\ Fitting' = None
    /\ Ran("Fit_function")
    /\ UNCHANGED <<stat, ret, retsrc, loaded, spinasked, pending>>

-----------------------------------------------------------------------------
(* The user at the widgets of the page *)

(* a number is entered into the spin control of parameter i *)
EditSpin(i, x) ==
    /\ spin[i] # x
    /\ Install([Page EXCEPT !.spin[i] = x])
    /\ Ran("EditSpin")
    /\ UNCHANGED <<stat, ret, retsrc, loaded, spinasked, handler>>

(* the check box of parameter i is clicked *)
EditCheck(i) ==
    /\ Install([Page EXCEPT !.checks[i] = ~checks[i]])
    /\ Ran("EditCheck")
    /\ UNCHANGED <<stat, ret, retsrc, loaded, spinasked, handler>>

(* the tools and the session write the parameters back to the form *)
Call_apply_parameters_reverse ==
    /\ Install(apply_parameters_reverse(Page))
    /\ Ran("apply_parameters_reverse")
    /\ UNCHANGED <<stat, ret, retsrc, loaded, spinasked, handler>>

(* lines 330-346 *)
Fit_WeightedFitCheckOn(p) ==
    [p EXCEPT !.varenabled = (p.weightedfitdrop.selection # 0)]

(* an item of the weights box is selected: EVT_COMBOBOX *)
SelectWeights(i) ==
    /\ dataexpfull # NoRef
    /\ Install(Fit_WeightedFitCheckOn(
           [Page EXCEPT !.weightedfitdrop.selection = i,
                        !.weightedfitdrop.value =
                            GetItems(weightedfitdrop)[i + 1]]))
    /\ Ran("Fit_WeightedFitCheck")
    /\ UNCHANGED <<stat, ret, retsrc, loaded, spinasked, handler>>

(* a text is typed into the weights box: it is no item of the list *)
TypeKnots(text) ==
    /\ dataexpfull # NoRef
    /\ text \notin {GetItems(weightedfitdrop)[k] : k \in 1..3}
    /\ Install([Page EXCEPT !.weightedfitdrop.selection = -1,
                            !.weightedfitdrop.value = text])
    /\ Ran("TypeKnots")
    /\ UNCHANGED <<stat, ret, retsrc, loaded, spinasked, handler>>

(* a number is entered into the variance spin control *)
EnterFitspin(n) ==
    /\ varenabled
    /\ spinasked' = n
    /\ Install([Page EXCEPT !.fitspin = SpinCtrlValue(n)])
    /\ Ran("EnterFitspin")
    /\ UNCHANGED <<stat, ret, retsrc, loaded, handler>>

-----------------------------------------------------------------------------
(* The statistics tool (src/src/tools/statistics.py) and the page info it  *)
(* reads (src/source/tools/info.py)                                        *)

(* page numbers and model ids of the pages the notebook is given *)
PageNumbers == (11 - MaxPages)..10
ModelIds == {6000, 6001}

DigitChar(k) == <<"0", "1", "2", "3", "4", "5", "6", "7", "8", "9">>[k + 1]

(* str(n) for n >= 0 *)
RECURSIVE Str(_)
Str(n) == IF n < 10 THEN <<DigitChar(n)>>
          ELSE Str(n \div 10) \o <<DigitChar(n % 10)>>

(* Page.counter, "#n: " *)
Counter(n) == <<"#">> \o Str(n) \o <<":", " ">>

(* text.strip(chars) *)
RECURSIVE Strip(_, _)
Strip(text, chars) ==
    IF text = <<>> THEN text
    ELSE IF Head(text) \in chars THEN Strip(Tail(text), chars)
    ELSE IF text[Len(text)] \in chars
         THEN Strip(SubSeq(text, 1, Len(text) - 1), chars)
         ELSE text

(* cmp(x, y) of two integers *)
cmp(x, y) == IF x < y THEN -1 ELSE IF x > y THEN 1 ELSE 0

(* ord(c) of the characters of a page key *)
Ord(c) == IF c = "#" THEN 35 ELSE IF c = " " THEN 32 ELSE 48 + DigitVal(c)

(* cmp(a, b) of two str: what pagekeys.sort() without cmp compares with *)
RECURSIVE cmp_str(_, _)
cmp_str(a, b) ==
    IF a = <<>> THEN (IF b = <<>> THEN 0 ELSE -1)
    ELSE IF b = <<>> THEN 1
    ELSE IF Head(a) # Head(b) THEN cmp(Ord(Head(a)), Ord(Head(b)))
    ELSE cmp_str(Tail(a), Tail(b))

(* lines 215-216 *)
cmp_func(a, b) ==
    cmp(IntOf(Strip(Strip(a, {" "}), {"#"})),
        IntOf(Strip(Strip(b, {" "}), {"#"})))

(* x put behind the elements of the sorted list that are not above it *)
RECURSIVE Insert(_, _)
Insert(x, sorted) ==
    IF sorted = <<>> THEN <<x>>
    ELSE IF cmp_func(x, Head(sorted)) < 0 THEN <<x>> \o sorted
    ELSE <<Head(sorted)>> \o Insert(x, Tail(sorted))

(* line 217: pagekeys.sort(cmp=cmp_func) *)
RECURSIVE Sorted(_)
Sorted(keys) ==
    IF keys = <<>> THEN <<>>
    ELSE Insert(keys[Len(keys)], Sorted(SubSeq(keys, 1, Len(keys) - 1)))

(* the orders dict.keys() can give the keys in *)
Orders(S) ==
    {f \in [1..Cardinality(S) -> S] :
        \A i, j \in 1..Cardinality(S) : i # j => f[i] # f[j]}

(* a Python object of a type other than list: a str, a bool, a number *)
PyStr(text) == [str |-> text]
PyBool(b) == [bool |-> b]
PyNum(n) == [num |-> n]

(* x is True *)
IsTrue(x) == "bool" \in DOMAIN x /\ x.bool

(* "%.4e" % t *)
Format4e(t) == PyStr([fmt |-> "%.4e", of |-> t])

(* a[k] of a Python list, k from 0 and negative k from the end *)
PyItem(a, k) == a[IF k < 0 THEN Len(a) + k + 1 ELSE k + 1]

(* Page.parent.version and active_fct.func_doc: texts of more than two    *)
(* characters                                                              *)
Version == <<"0", ".", "7">>
FuncDoc == <<"d", "o", "c">>

(* the label to be checked from the start *)
HeadLabel == "filename/title"

(* info.py 116-122 and 156-159 *)
TitleSection(P) ==
    << <<"Function used", PyStr(P.fct)>>,
       <<"Model name", PyStr(P.model)>>,
       <<"Model ID", PyStr(Str(P.modelid))>>,
       <<"User title", PyStr(P.tabtitle)>>,
       <<"Page number", PyStr(SubSeq(P.counter, 2, Len(P.counter) - 2))>> >>
    \o (IF P.dataexp = NoRef THEN <<>>
        ELSE << <<"Data type", PyStr("Autocorrelation")>> >>)

(* info.py 125-131: one item for each parameter *)
ParametersSection(P) ==
    [i \in 1..Len(P.parms) |-> <<P.labels[i], PyNum(P.parms[i])>>]

(* info.py 171-178: the names of the parameters that are fitted *)
FittedNames(P) ==
    LET RECURSIVE from(_)
        from(i) == IF i > Len(P.tofit) THEN <<>>
                   ELSE (IF P.tofit[i] THEN <<P.labels[i]>> ELSE <<>>)
                            \o from(i + 1)
    IN  from(1)

(* info.py 151-178, for a page with Page.dataexp *)
FittingSection(P) ==
    << <<"chi2", P.chi2>>,
       <<"Weighted fit", P.weightedfit>> >>
    \o (IF IsTrue(P.weightedfit)
        THEN << <<"No. channels", PyNum(2 * P.fittingbins + 1)>> >>
        ELSE <<>>)
    \o << <<"Interval start [ms]",
            Format4e(PyItem(P.taufull, P.startcrop.v))>>,
          <<"Interval end [ms]",
            Format4e(PyItem(P.taufull, P.endcrop.v - 1))>> >>
    \o (IF FittedNames(P) # <<>>
        THEN << <<"fit par.", PyStr(FittedNames(P))>> >>
        ELSE <<>>)

(* info.py 183-190 *)
BackgroundSection(P) ==
    << <<"bg name", PyStr(<<"bg", P.bgselected.v>>)>>,
       <<"bg rate [kHz]", PyNum(Background[P.bgselected.v + 1])>> >>

(* the keys of InfoDict for page P *)
InfoKeys(P) ==
    {"version", "title", "parameters", "modeldoc"}
        \cup (IF P.dataexp # NoRef THEN {"fitting"} ELSE {})
        \cup (IF P.bgselected # None THEN {"background"} ELSE {})

(* info.py 104-195, InfoClass.GetPageInfo: a dictionary of lists; an item  *)
(* of two elements is a label and a value                                  *)
GetPageInfo(P) ==
    [key \in InfoKeys(P) |->
        CASE key = "version" -> <<Version>>
          [] key = "title" -> TitleSection(P)
          [] key = "parameters" -> ParametersSection(P)
          [] key = "fitting" -> FittingSection(P)
          [] key = "background" -> BackgroundSection(P)
          [] key = "modeldoc" -> <<FuncDoc>>]

(* orders a dictionary gives the keys of InfoDict in *)
KeyOrders ==
    {<<"version", "title", "parameters", "fitting", "background", "modeldoc">>,
     <<"modeldoc", "background", "fitting", "parameters", "title", "version">>}

(* Infodict.keys() *)
Keys(Infodict, keyorder) ==
    SelectSeq(keyorder, LAMBDA key : key \in DOMAIN Infodict)

(* the items of two elements of the sections, section after section *)
RECURSIVE Pairs(_, _)
Pairs(Infodict, keys) ==
    IF keys = <<>> THEN <<>>
    ELSE SelectSeq(Infodict[Head(keys)], LAMBDA item : Len(item) = 2)
            \o Pairs(Infodict, Tail(keys))

(* statistics.py 95-112, head: the title items with the head label *)
HeadItems(Infodict, keys) ==
    SelectSeq(Pairs(Infodict, SelectSeq(keys, LAMBDA key : key = "title")),
              LAMBDA item : item[1] = HeadLabel)

(* statistics.py 95-112, tail: every other item of two elements *)
RECURSIVE TailItems(_, _)
TailItems(Infodict, keys) ==
    IF keys = <<>> THEN <<>>
    ELSE SelectSeq(Infodict[Head(keys)],
                   LAMBDA item : /\ Len(item) = 2
                                 /\ Head(keys) = "title" => item[1] # HeadLabel)
            \o TailItems(Infodict, Tail(keys))

(* Page.counter[:-2] *)
PageKey(P) == SubSeq(P.counter, 1, Len(P.counter) - 2)

(* every page of the notebook *)
AllPages(nb, cur) == {i \in 1..Len(nb) : TRUE}

(* lines 201-205: the pages with the model of the current page *)
WantedPages(nb, cur) == {i \in 1..Len(nb) : nb[i].modelid = nb[cur].modelid}

(* info.py 38-45, InfoClass.GetAllInfo: for each key the page it was last  *)
(* written for                                                             *)
GetAllInfo(nb, pages) ==
    [key \in {PageKey(nb[i]) : i \in pages} |->
        CHOOSE i \in pages :
            /\ PageKey(nb[i]) = key
            /\ \A j \in pages : PageKey(nb[j]) = key => j <= i]

(* lines 241-243 without the test: the missing value is appended for every *)
(* label                                                                   *)
MissingAlways(label, found) == << <<label, PyStr(<<"-">>)>> >>

(* lines 241-243: the missing value, for a label no item has *)
Missing(label, found) ==
    IF found = <<>> THEN << <<label, PyStr(<<"-">>)>> >> ELSE <<>>

(* lines 232-243: the row of one page *)
RECURSIVE PageRow(_, _)
PageRow(pairs, checked) ==
    IF checked = <<>> THEN <<>>
    ELSE LET label == Head(checked)
             found == SelectSeq(pairs, LAMBDA subitem : subitem[1] = label)
         IN  found \o Missing(label, found) \o PageRow(pairs, Tail(checked))

(* lines 196-199 *)
CheckedLabels ==
    LET RECURSIVE from(_)
        from(i) == IF i > Len(Checklabels) THEN <<>>
                   ELSE (IF Checkboxes[i] THEN <<Checklabels[i]>> ELSE <<>>)
                            \o from(i + 1)
    IN  from(1)

(* the fields of a notebook page the tools read: page n of model m, with   *)
(* (d) or without a measured curve                                         *)
NotebookPage(n, m, d) ==
    [number |-> n, counter |-> Counter(n), modelid |-> m,
     fct |-> "fct", model |-> "model", tabtitle |-> "title",
     dataexp |-> IF d THEN "crop" ELSE NoRef,
     chi2 |-> IF d THEN PyNum(1) ELSE None,
     weightedfit |-> PyStr(NoWeights), fittingbins |-> 3,
     taufull |-> CtorTau, startcrop |-> Some(0),
     endcrop |-> Some(Len(CtorTau)),
     labels |-> CtorLabels, parms |-> CtorParms, tofit |-> CtorToFit,
     bgselected |-> None]

(* the labels of the check boxes the user clicks *)
ClickedLabels == {"Model ID", "Data type"}

(* the parent adds a page to the notebook *)
AddPage(n, m, d) ==
    /\ Len(notebook) < MaxPages
    /\ \A i \in 1..Len(notebook) : notebook[i].number # n
    /\ notebook' = Append(notebook, NotebookPage(n, m, d))
    /\ op' = "AddPage"
    /\ UNCHANGED <<fields, cropin, reps, fitbox, spinasked, handler,
                   curpage, Checklabels, Checkboxes, SaveInfo, rowsof,
                   InfoDict>>

(* lines 87-122, Stat.OnChooseValues for page P: the labels and the boxes  *)
OnChooseValues(P, keyorder) ==
    LET Infodict == GetPageInfo(P)
        keys == Keys(Infodict, keyorder)
        head == HeadItems(Infodict, keys)
        Info == head \o TailItems(Infodict, keys)
    IN  [Checklabels |-> [k \in 1..Len(Info) |-> Info[k][1]],
         Checkboxes |-> [k \in 1..Len(Info) |-> k <= Len(head)]]

(* lines 133-153: Stat.OnPageChanged(notebook page i) *)
OnPageChanged(i, keyorder) ==
    /\ curpage # i
    /\ curpage' = i
    /\ Checklabels' = OnChooseValues(notebook[i], keyorder).Checklabels
    /\ Checkboxes' = OnChooseValues(notebook[i], keyorder).Checkboxes
    /\ op' = "OnPageChanged"
    /\ UNCHANGED <<fields, cropin, reps, fitbox, spinasked, handler,
                   notebook, SaveInfo, rowsof, InfoDict>>

(* the user clicks check box k of the tool *)
ClickCheckbox(k) ==
    /\ Checklabels[k] \in ClickedLabels
    /\ Checkboxes' = [Checkboxes EXCEPT ![k] = ~@]
    /\ op' = "ClickCheckbox"
    /\ UNCHANGED <<fields, cropin, reps, fitbox, spinasked, handler,
                   notebook, curpage, Checklabels, SaveInfo, rowsof,
                   InfoDict>>

(* lines 194-244; order is the order AllInfo.keys() gives the page keys   *)
(* in, keyorder the order of the sections of a page's info                *)
GetWantedParameters(order, keyorder) ==
    /\ curpage # 0
    /\ LET AllInfo == GetAllInfo(notebook, WantedPages(notebook, curpage))
           pagekeys == Sorted(order)
           InfoOf(k) == GetPageInfo(notebook[AllInfo[pagekeys[k]]])
       IN  /\ order \in Orders(DOMAIN AllInfo)
           /\ SaveInfo' = Some([k \in 1..Len(pagekeys) |->
                   PageRow(Pairs(InfoOf(k), Keys(InfoOf(k), keyorder)),
                           CheckedLabels)])
           /\ rowsof' = [k \in 1..Len(pagekeys) |-> AllInfo[pagekeys[k]]]
    /\ op' = "GetWantedParameters"
    /\ UNCHANGED <<fields, cropin, reps, fitbox, spinasked, handler,
                   notebook, curpage, Checklabels, Checkboxes, InfoDict>>

(* the fields of page p that GetPageInfo reads; the page is the first of  *)
(* the notebook                                                            *)
InfoPage(p) ==
    [number |-> 1, counter |-> Counter(1), modelid |-> 6000,
     fct |-> "fct", model |-> "model", tabtitle |-> "title",
     dataexp |-> p.dataexp, chi2 |-> p.chi2,
     weightedfit |-> PyStr(p.weightedfitdrop.value),
     fittingbins |-> p.fitspin,
     taufull |-> p.taufull, startcrop |-> p.startcrop,
     endcrop |-> p.endcrop,
     labels |-> CtorLabels, parms |-> p.parms, tofit |-> p.tofit,
     bgselected |-> p.bgselected]

(* info.py 165-166: what GetPageInfo raises for page P *)
InfoRaises(P) ==
    IF P.dataexp = NoRef THEN "none"
    ELSE IF P.startcrop = None \/ P.endcrop = None THEN "TypeError"
    ELSE IF \/ IndexRaises(P.startcrop, Len(P.taufull))
            \/ IndexRaises(Some(P.endcrop.v - 1), Len(P.taufull))
         THEN "IndexError"
         ELSE "none"

(* info.py 243-249, ShowInfo.Content: the info of this page is read *)
ShowInfo ==
    /\ InfoDict' = IF InfoRaises(InfoPage(Page)) = "none"
                   THEN Some(GetPageInfo(InfoPage(Page)))
                   ELSE None
    /\ Install([Page EXCEPT !.raised = InfoRaises(InfoPage(Page))])
    /\ Ran("GetPageInfo")
    /\ UNCHANGED <<notebook, curpage, Checklabels, Checkboxes, SaveInfo,
                   rowsof, ret, retsrc, loaded, spinasked, handler>>

-----------------------------------------------------------------------------

(* the page after __init__, which ends with PlotAll on a page without data; *)
(* tr and bg are its trace and its selected background                     *)
Constructed(tr, bg) ==
    /\ heap = [o \in Objs |-> <<>>]
    /\ dataexpfull = NoRef
    /\ dataexp = NoRef
    /\ taufull = CtorTau
    /\ tau = CtorTau
    /\ startcrop = Some(0)
    /\ endcrop = Some(Len(CtorTau))
    /\ trace = tr
    /\ traceavg = None
    /\ bgselected = bg
    /\ bgcorrect = RInt(1)
    /\ parms = CtorParms
    /\ tofit = CtorToFit
    /\ spin = CtorParms
    /\ checks = CtorToFit
    /\ datacorr = Some([i \in 1..Len(CtorTau) |->
                          [x |-> CtorTau[i],
                           y |-> active_fct(CtorParms, CtorTau)[i]]])
    /\ resid = None
    /\ chi2 = None
    /\ ret = NoRef
    /\ retsrc = NoRef
    /\ loaded = <<>>
    /\ cropin = <<>>
    /\ op = "init"
    /\ raised = "none"
    /\ reps = 1
    /\ weightedfitdrop = [selection |-> 0, value |-> NoWeights,
                          spline |-> SplineItem(<<"5">>)]
    /\ varenabled = FALSE
    /\ fitspin = 3
    /\ FitKnots = <<"5">>
    /\ spinasked = 3
    /\ phase = "Idle"
    /\ Fitting = None
    /\ depth = 0
    /\ pending = 0
    /\ busy = 0
    /\ notebook = <<>>
    /\ curpage = 0
    /\ Checklabels = <<>>
    /\ Checkboxes = <<>>
    /\ SaveInfo = None
    /\ rowsof = <<>>
    /\ InfoDict = None

Init == Constructed(None, None)

BgChoices == {None} \cup {Some(i - 1) : i \in 1..Len(Background)}

(* Channel selection over every crop value, on a page without a trace and  *)
(* on a page whose trace and background were chosen before                 *)
InitCrop ==
    \/ Constructed(None, None)
    \/ Constructed(Some(<<100, 100>>), Some(0))

NextCrop ==
    \/ \E s \in SeriesSet : ImportData(s)
    \/ \E s \in CropVals, e \in CropVals : SetCrop(s, e)
    \/ PlotAll

SpecCrop == InitCrop /\ [][NextCrop]_vars

(* background, direct calls and fits, on the channels PlotAll selects *)
Next ==
    \/ \E s \in SeriesSet : ImportData(s)
    \/ \E t \in TraceSet : SetTrace(t)
    \/ \E b \in BgChoices : SelectBackground(b)
    \/ PlotAll
    \/ \E src \in {dataexpfull, dataexp} : CallCorrectDataexp(src)
    \/ MutateRet
    \/ CallFit_create_instance
    \/ \E ok \in BOOLEAN, v \in OptimSet : Fit_function(ok, v)

Spec == Init /\ [][Next]_vars

(* the Fit button and the parameter form, handler by handler and, inside   *)
(* Fit_function, statement by statement                                    *)
FitStep ==
    \/ FitBegin
    \/ FitConfigure
    \/ \E v \in TrialSet : least_squareTries(v)
    \/ \E ok \in BOOLEAN, v \in OptimSet : least_squareReturns(ok, v)
    \/ FitSucceeded
    \/ FitFailed

NextFit ==
    \/ Dispatchable /\ \E s \in SeriesSet : ImportData(s)
    \/ Dispatchable /\ \E i \in 1..Len(spin), x \in SpinEntries : EditSpin(i, x)
    \/ Dispatchable /\ \E i \in 1..Len(checks) : EditCheck(i)
    \/ Dispatchable /\ PlotAll
    \/ Dispatchable /\ Call_apply_parameters_reverse
    \/ ClickFit
    \/ FitStep

SpecFit == Init /\ [][NextFit]_vars

Phases == {"Idle", "Configuring", "Running", "Succeeded", "Failed"}

(* a handler that was called runs on: Fit_function leaves the statement it *)
(* is at, and the solver returns                                           *)
FitProgress ==
    /\ phase # "Idle"
    /\ phase' \in Phases \ {phase}

NextLifecycle ==
    \/ Dispatchable /\ \E s \in SeriesSet : ImportData(s)
    \/ Dispatchable /\ PlotAll
    \/ ClickFit
    \/ FitStep

(* the Fit button alone, under that progress *)
SpecLifecycle == Init /\ [][NextLifecycle]_vars /\ WF_phase(FitProgress)

(* exceptions of the solver that Fit_function has no except clause for *)
Uncaught == {"TypeError"}

(* the Fit button, with a solver that raises those as well *)
NextBusy ==
    \/ Dispatchable /\ \E s \in SeriesSet : ImportData(s)
    \/ Dispatchable /\ \E i \in 1..Len(checks) : EditCheck(i)
    \/ Dispatchable /\ PlotAll
    \/ ClickFit
    \/ FitStep
    \/ \E exc \in Uncaught : least_squareRaises(exc)

SpecBusy == Init /\ [][NextBusy]_vars

(* the weights box and the variance spin control, then Fit *)
NextWeights ==
    \/ Dispatchable /\ \E s \in SeriesSet : ImportData(s)
    \/ Dispatchable /\ \E i \in 0..2 : SelectWeights(i)
    \/ Dispatchable /\ \E text \in KnotTexts : TypeKnots(text)
    \/ Dispatchable /\ \E n \in FitspinEntries : EnterFitspin(n)
    \/ ClickFit
    \/ FitBegin
    \/ FitConfigure
    \/ \E ok \in BOOLEAN, v \in OptimSet : least_squareReturns(ok, v)
    \/ FitSucceeded
    \/ FitFailed

SpecWeights == Init /\ [][NextWeights]_vars

(* the weights box, the variance spin control and the info tool *)
NextInfo ==
    \/ \E s \in SeriesSet : ImportData(s)
    \/ PlotAll
    \/ \E i \in 0..2 : SelectWeights(i)
    \/ \E text \in KnotTexts : TypeKnots(text)
    \/ \E n \in FitspinEntries : EnterFitspin(n)
    \/ ShowInfo

SpecInfo == Init /\ [][NextInfo]_vars

(* the notebook and the statistics tool *)
NextStat ==
    \/ \E n \in PageNumbers, m \in ModelIds, d \in BOOLEAN : AddPage(n, m, d)
    \/ \E i \in 1..Len(notebook), keyorder \in KeyOrders :
          OnPageChanged(i, keyorder)
    \/ \E k \in 1..Len(Checkboxes) : ClickCheckbox(k)
    \/ /\ curpage # 0
       /\ \E order \in Orders({PageKey(notebook[i]) :
                                  i \in WantedPages(notebook, curpage)}),
             keyorder \in KeyOrders :
             GetWantedParameters(order, keyorder)

SpecStat == Init /\ [][NextStat]_vars

-----------------------------------------------------------------------------
(* Channel selection: properties of PlotAll *)

HasData == dataexpfull # NoRef
Full == heap[dataexpfull]
Exp == heap[dataexp]
AfterPlotAll == op = "PlotAll" /\ HasData

(* 0 <= start < end <= n *)
ValidInterval(s, e, n) ==
    /\ s # None
    /\ e # None
    /\ 0 <= s.v
    /\ s.v < e.v
    /\ e.v <= n

(* the lag times of rows s+1..e (0-based s..e-1) of the full series *)
LagTimes(s, e) == [i \in 1..(e - s) |-> Full[s + i].x]

(* C1: on a page with experimental data, PlotAll with a crop interval      *)
(* 0 <= startcrop < endcrop <= len(dataexpfull) leaves a cropped series of *)
(* length endcrop - startcrop whose lag times (tau and dataexp[:,0]) are   *)
(* those of dataexpfull[startcrop:endcrop], and leaves startcrop and       *)
(* endcrop as they were.                                                   *)
C1_CropValidInterval ==
    (AfterPlotAll /\ ValidInterval(cropin[1], cropin[2], Len(Full))) =>
        /\ Len(Exp) = cropin[2].v - cropin[1].v
        /\ tau = LagTimes(cropin[1].v, cropin[2].v)
        /\ Col0(Exp) = LagTimes(cropin[1].v, cropin[2].v)
        /\ startcrop = cropin[1]
        /\ endcrop = cropin[2]

C1_Witness ==
    /\ AfterPlotAll
    /\ cropin = <<Some(1), Some(2)>>
    /\ Len(Full) = MaxLen
    /\ tau = <<2>>
    /\ raised = "none"

(* C2: on a page with experimental data, PlotAll with startcrop equal to   *)
(* endcrop (any integer, or None for both) takes the full series as the    *)
(* cropped series and sets startcrop = 0 and endcrop = len(dataexpfull).   *)
C2_EqualCropIsFullRange ==
    (AfterPlotAll /\ cropin[1] = cropin[2]) =>
        /\ Len(Exp) = Len(Full)
        /\ Col0(Exp) = Col0(Full)
        /\ tau = Col0(Full)
        /\ startcrop = Some(0)
        /\ endcrop = Some(Len(Full))

C2_Witness ==
    /\ AfterPlotAll
    /\ cropin = <<Some(1), Some(1)>>
    /\ Len(Full) = MaxLen
    /\ Len(tau) = MaxLen
    /\ startcrop = Some(0)

(* startcrop or endcrop cannot be used as an index into a series of        *)
(* length n: it is None, or the element it names does not exist            *)
Unresolvable(s, e, n) ==
    \/ s = None
    \/ e = None
    \/ IndexRaises(s, n)
    \/ IndexRaises(Some(e.v - 1), n)

(* C3: whenever startcrop or endcrop is out of bounds of the full series   *)
(* or is None, PlotAll resets both startcrop to 0 and endcrop to           *)
(* len(taufull), takes the full series as tau and dataexp, and leaves no   *)
(* exception to its caller.                                                *)
C3_BadCropResetsBoth ==
    (op = "PlotAll" /\ cropin[1] # cropin[2]
       /\ Unresolvable(cropin[1], cropin[2], Len(taufull))) =>
        /\ startcrop = Some(0)
        /\ endcrop = Some(Len(taufull))
        /\ tau = taufull
        /\ HasData => Col0(Exp) = taufull
        /\ raised = "none"

(* C4: after every completed PlotAll on a page with a non-empty full       *)
(* series, whatever integers startcrop and endcrop were before, the stored *)
(* interval satisfies 0 <= startcrop < endcrop <= len(full series).        *)
C4_StoredIntervalValid ==
    (AfterPlotAll /\ raised = "none" /\ None \notin {cropin[1], cropin[2]}) =>
        ValidInterval(startcrop, endcrop, Len(Full))

(* C5: with dataexpfull, trace, background and parameters unchanged, a     *)
(* second PlotAll leaves dataexp, tau, startcrop and endcrop as the first  *)
(* one left them.                                                          *)
C5_PlotAllIdempotent ==
    [][(op = "PlotAll" /\ op' = "PlotAll") =>
          /\ dataexp' = NoRef <=> dataexp = NoRef
          /\ dataexp # NoRef => heap'[dataexp'] = heap[dataexp]
          /\ tau' = tau
          /\ startcrop' = startcrop
          /\ endcrop' = endcrop]_vars

C5_Witness ==
    /\ AfterPlotAll
    /\ reps = MaxReps
    /\ startcrop = Some(1)
    /\ endcrop = Some(2)
    /\ Len(Full) = MaxLen
    /\ bgcorrect = RInt(4)
    /\ Exp[1].y = RMul(Full[2].y, RInt(4))

-----------------------------------------------------------------------------
(* Background correction: properties of CorrectDataexp *)

(* C6: the measured series is never modified: after any sequence of        *)
(* PlotAll, CorrectDataexp, Fit_create_instance and Fit_function calls,    *)
(* with or without a background selected, every element of dataexpfull is  *)
(* as it was loaded.                                                       *)
C6_FullSeriesNeverModified == HasData => Full = loaded

C6_Witness ==
    /\ HasData
    /\ op = "Fit_function"
    /\ bgselected = Some(0)
    /\ bgcorrect = RInt(4)
    /\ Exp[1].y = RMul(loaded[1].y, RInt(4))

(* C7: with no background selected, CorrectDataexp(series) returns for a   *)
(* series that is not None an array with the values of the series that is  *)
(* another object: writing into the returned array later leaves the series *)
(* as it was.                                                              *)
C7_NoBackgroundReturnsCopy ==
    [][/\ (op' = "CorrectDataexp" /\ bgselected = None /\ retsrc' # NoRef) =>
              (ret' # retsrc' /\ heap'[ret'] = heap[retsrc'])
       /\ (op' = "MutateRet" /\ retsrc # NoRef) =>
              heap'[retsrc] = heap[retsrc]]_vars

C7_Witness ==
    /\ op = "MutateRet"
    /\ trace = None
    /\ bgselected = None
    /\ retsrc = dataexpfull
    /\ HasData
    /\ heap[ret][1].y = Overwrite
    /\ Full[1].y # Overwrite

(* the selected background rate B, and S - B for S = traceavg = n/d over d *)
SelectedRate == Background[bgselected.v + 1]
Excess == traceavg.v.n - SelectedRate * traceavg.v.d

(* y2 = y1 * (S/(S-B))^2 for S # B, without division; an infinite y1 stays *)
(* infinite, or becomes nan when the factor is 0                           *)
ScaledBy(y2, y1) ==
    IF y1.d # 0
    THEN /\ y2.d # 0
         /\ y2.n * y1.d * Excess * Excess
               = y1.n * y2.d * traceavg.v.n * traceavg.v.n
    ELSE /\ y2.d = 0
         /\ y2.n = IF traceavg.v.n = 0 THEN 0 ELSE y1.n

(* C8: with a background selected and a trace average S different from    *)
(* the background rate B, CorrectDataexp stores the factor (S/(S-B))^2,    *)
(* multiplies every y-value of the returned series by it and leaves every  *)
(* x-value as it is (S = 100, B = 50: y is multiplied by 4).               *)
C8_BackgroundFactorApplied ==
    [][(/\ op' = "CorrectDataexp"
        /\ retsrc' # NoRef
        /\ bgselected # None
        /\ traceavg # None
        /\ Excess # 0) =>
          /\ ScaledBy(bgcorrect', RInt(1))
          /\ Len(heap'[ret']) = Len(heap[retsrc'])
          /\ \A i \in 1..Len(heap[retsrc']) :
                /\ heap'[ret'][i].x = heap[retsrc'][i].x
                /\ ScaledBy(heap'[ret'][i].y, heap[retsrc'][i].y)]_vars

C8_Witness ==
    /\ op = "CorrectDataexp"
    /\ retsrc = dataexpfull
    /\ HasData
    /\ traceavg = Some(RInt(100))
    /\ bgselected = Some(0)
    /\ bgcorrect = RInt(4)
    /\ Full[1].y = RInt(10)
    /\ heap[ret][1].y = RInt(40)
    /\ heap[ret][1].x = Full[1].x

(* the trace average equals the selected background rate *)
Degenerate ==
    /\ bgselected # None
    /\ traceavg # None
    /\ Excess = 0

Corrected ==
    \/ op \in {"PlotAll", "Fit_function", "Fit_create_instance"} /\ HasData
    \/ op = "CorrectDataexp" /\ retsrc # NoRef

(* C9: a background correction with the trace average equal to the         *)
(* background rate ends in a reported error (DegenerateBackgroundError);   *)
(* no infinite or undefined bgcorrect is ever stored.                      *)
C9_DegenerateBackgroundIsError ==
    /\ IsFinite(bgcorrect)
    /\ (Corrected /\ Degenerate) => raised = "DegenerateBackgroundError"

(* C10: after PlotAll or CorrectDataexp, in any sequence of selecting and  *)
(* deselecting a background and changing the trace, bgcorrect is 1.0 if no *)
(* background is selected and the factor for the current trace average and *)
(* the current background otherwise.                                       *)
C10_BgcorrectFollowsSelection ==
    (op \in {"PlotAll", "CorrectDataexp"}) =>
        /\ (bgselected = None /\ IsFinite(bgcorrect)) => bgcorrect = RInt(1)
        /\ (op = "PlotAll" /\ HasData /\ bgselected # None /\ traceavg # None
              /\ Excess # 0) => ScaledBy(bgcorrect, RInt(1))

-----------------------------------------------------------------------------
(* The fit: properties of Fit_create_instance and Fit_function *)

(* C11: the fit instance built by Fit_create_instance holds copies of the  *)
(* page's parameter values and fit mask: what the solver writes into       *)
(* Fitting.values changes neither active_parms[1] nor active_parms[2], and *)
(* between the beginning of Fit_function and the return of least_square    *)
(* nothing but apply_parameters writes the page's parameters.              *)
C11_FitRequestHoldsCopies ==
    [][/\ (phase = "Configuring" /\ phase' = "Running") =>
              /\ Fitting'.v.values.v = parms
              /\ Fitting'.v.valuestofit.v = tofit
       /\ (phase \in {"Configuring", "Running", "Failed"}) =>
              (parms' = parms /\ tofit' = tofit)]_vars

C11_Witness ==
    /\ phase = "Running"
    /\ op = "least_square"
    /\ Fitting.v.values.v = <<3, -2>>
    /\ parms = CtorParms
    /\ tofit = CtorToFit

(* C12: when the solver raises ValueError during Fit_function, the         *)
(* exception is caught, the handler returns, and the page is as it was     *)
(* when the solver was called: parameter values, chi2, dataexp and the     *)
(* plotted curves are unchanged.                                           *)
C12_SolverFailureKeepsState ==
    [][(phase \in {"Running", "Failed"} /\ phase' \in {"Failed", "Idle"}) =>
          /\ parms' = parms
          /\ spin' = spin
          /\ chi2' = chi2
          /\ dataexp' = dataexp
          /\ dataexp # NoRef => heap'[dataexp] = heap[dataexp]
          /\ tau' = tau
          /\ datacorr' = datacorr
          /\ resid' = resid
          /\ raised' = "none"
          /\ (phase = "Failed" /\ phase' # phase) => phase' = "Idle"]_vars

C12_Witness ==
    /\ op = "Fit_function"
    /\ phase = "Idle"
    /\ HasData
    /\ chi2 = None
    /\ parms = CtorParms
    /\ spin = CtorParms

(* the steps of the fit lifecycle *)
Lifecycle ==
    {<<"Idle", "Configuring">>, <<"Configuring", "Running">>,
     <<"Running", "Succeeded">>, <<"Running", "Failed">>,
     <<"Succeeded", "Idle">>, <<"Failed", "Idle">>}

(* C13: every Fit_function invocation goes Idle -> Configuring -> Running  *)
(* -> Succeeded or Failed -> Idle: the solver runs on a fit instance that  *)
(* has been built, the optimized parameters and chi2 are written on the    *)
(* Succeeded branch only, the Failed branch leaves the parameters as they  *)
(* were, and every invocation returns to Idle.                             *)
C13_FitLifecycle ==
    /\ [][/\ phase' # phase => <<phase, phase'>> \in Lifecycle
          /\ phase' = "Running" =>
                (Fitting' # None /\ phase \in {"Configuring", "Running"})
          /\ phase \in {"Configuring", "Running", "Failed"} =>
                (parms' = parms /\ spin' = spin /\ chi2' = chi2)]_vars
    /\ (phase # "Idle") ~> (phase = "Idle")

C13_Witness ==
    /\ op = "Fit_function"
    /\ phase = "Idle"
    /\ Fitting = None
    /\ chi2 # None
    /\ chi2.v.values = <<2, -1>>
    /\ parms = <<2, 1>>

(* C14: at most one Fit_function is between its beginning and its return:  *)
(* a Fit button event that arrives meanwhile waits in the queue, and no     *)
(* other handler of the page (PlotAll included) runs meanwhile.            *)
C14_OneFitAtATime ==
    /\ depth <= 1
    /\ phase # "Idle" <=> depth = 1
    /\ phase = "Configuring" => op = "apply_parameters"
    /\ phase = "Running" => op \in {"Fit_create_instance", "least_square"}
    /\ phase \in {"Succeeded", "Failed"} => op = "least_square"

C14_Witness ==
    /\ phase = "Running"
    /\ depth = 1
    /\ pending > 0
    /\ op = "least_square"

(* C15: the data the solver is given is the background-corrected full     *)
(* series inside [startcrop, endcrop], and after any PlotAll these are the *)
(* points of the displayed series dataexp, same rows and same factor, for  *)
(* every startcrop and endcrop the page can hold.                          *)
C15_SolverDataIsDisplayedData ==
    (AfterPlotAll /\ raised = "none") =>
        LET f == Fit_create_instance(Page)
        IN  /\ f.fitting.interval = <<startcrop, endcrop>>
            /\ FittingData(f.page.heap, f.fitting) = Exp

(* the text is not a number: it is empty or holds a character that is no  *)
(* digit                                                                   *)
Unparsable(text) == text = <<>> \/ \E i \in 1..Len(text) : ~isdigit(text[i])

(* C16: the weighting of every fit instance Fit_create_instance builds is  *)
(* none, spline-N with a positive integer N, or model function; when the   *)
(* user typed a knot number that is not a number ("7x", or no digit at     *)
(* all) the weighting is spline-5.                                         *)
C16_WeightingModeValid ==
    [][(phase = "Configuring" /\ phase' = "Running") =>
          /\ Fitting'.v.fittype.kind \in {"default", "spline", "model function"}
          /\ Fitting'.v.fittype.kind = "spline" =>
                /\ Fitting'.v.fittype.Knots # <<>>
                /\ IntOf(Fitting'.v.fittype.Knots) > 0
          /\ (weightedfitdrop.selection = -1
                /\ Unparsable(weightedfitdrop.value)) =>
                Fitting'.v.fittype = FitType("spline", <<"5">>)]_vars

(* C17: a fit instance is not built with a variance half-width outside of  *)
(* 1..100: after such a number was entered, Fit_function ends with the     *)
(* error InvalidWeightingConfig before the solver is called; the number is *)
(* not replaced by the nearest allowed one and not handed to the solver.   *)
C17_HalfWidthOutOfRangeRejected ==
    (spinasked \notin SpinMin..SpinMax) =>
        /\ phase \notin {"Running", "Succeeded", "Failed"}
        /\ op = "Fit_function" => raised = "InvalidWeightingConfig"

(* C18: after any sequence of apply_parameters, apply_parameters_reverse,  *)
(* Fit_function and PlotAll the parameter names, values and fit mask have  *)
(* the same length (check_parms keeps the length, the solver returns one   *)
(* value for each parameter).                                              *)
C18_ParameterArraysSameLength ==
    /\ Len(parms) = Len(CtorLabels)
    /\ Len(tofit) = Len(CtorLabels)

C18_Witness ==
    /\ op = "apply_parameters_reverse"
    /\ parms = <<2, 1>>
    /\ chi2 # None
    /\ tofit = <<FALSE, FALSE>>
    /\ checks = tofit

-----------------------------------------------------------------------------
(* The statistics table: properties of GetWantedParameters *)

(* the table was built last, from at least one page *)
TableBuilt == op = "GetWantedParameters" /\ SaveInfo # None

(* the page number of row k *)
RowNumber(k) == notebook[rowsof[k]].number

(* C19: the rows of SaveInfo are in ascending numeric order of the page    *)
(* number, for every set of pages and every order of the dictionary keys,  *)
(* page numbers of 10 and above included.                                  *)
C19_RowsInPageNumberOrder ==
    TableBuilt =>
        /\ Len(SaveInfo.v) = Len(rowsof)
        /\ \A j, k \in 1..Len(rowsof) : j < k => RowNumber(j) < RowNumber(k)

C19_Witness ==
    /\ TableBuilt
    /\ Len(notebook) = MaxPages
    /\ notebook[1].number = 10
    /\ notebook[2].number = 9
    /\ rowsof = <<2, 1>>
    /\ Len(SaveInfo.v) = 2

(* C20: SaveInfo has exactly one row for each notebook page with the       *)
(* modelid of the current page and no row for a page with another modelid. *)
C20_OneRowPerPageOfModel ==
    TableBuilt =>
        /\ \A i \in 1..Len(notebook) :
              Cardinality({k \in 1..Len(rowsof) : rowsof[k] = i})
                 = IF notebook[i].modelid = notebook[curpage].modelid
                   THEN 1 ELSE 0
        /\ Len(SaveInfo.v) = Len(rowsof)

C20_Witness ==
    /\ TableBuilt
    /\ Len(notebook) = MaxPages
    /\ notebook[1].modelid # notebook[2].modelid
    /\ curpage = 2
    /\ rowsof = <<2>>
    /\ CheckedLabels = <<"Model ID">>
    /\ SaveInfo.v = << << <<"Model ID", PyStr(Str(notebook[2].modelid))>> >> >>

(* the items of two elements of the info of the page of row k *)
RowPairs(k) ==
    LET Infodict == GetPageInfo(notebook[rowsof[k]])
    IN  Pairs(Infodict, Keys(Infodict, CHOOSE keyorder \in KeyOrders : TRUE))

(* C21: every row of SaveInfo has exactly one entry for each checked       *)
(* label, in the order of the checked labels: the [label, value] item of   *)
(* the page if the page has the label, [label, "-"] if it has not.         *)
C21_RowsLineUpWithLabels ==
    TableBuilt =>
        \A k \in 1..Len(SaveInfo.v) :
            /\ Len(SaveInfo.v[k]) = Len(CheckedLabels)
            /\ \A j \in 1..Len(SaveInfo.v[k]) :
                  LET entry == SaveInfo.v[k][j]
                      label == CheckedLabels[j]
                      has == {i \in 1..Len(RowPairs(k)) :
                                 RowPairs(k)[i][1] = label}
                  IN  /\ entry[1] = label
                      /\ IF has = {} THEN entry[2] = PyStr(<<"-">>)
                         ELSE \E i \in has : entry = RowPairs(k)[i]

C21_Witness ==
    /\ TableBuilt
    /\ Len(SaveInfo.v) = 2
    /\ notebook[curpage].dataexp # NoRef
    /\ CheckedLabels = <<"Model ID", "Data type">>
    /\ \E k \in 1..2 :
          /\ notebook[rowsof[k]].dataexp = NoRef
          /\ SaveInfo.v[k][1][2] = PyStr(Str(notebook[rowsof[k]].modelid))
          /\ SaveInfo.v[k][2][2] = PyStr(<<"-">>)

-----------------------------------------------------------------------------
(* The plotted arrays: properties of PlotAll *)

(* C22: after every PlotAll that returned, on a page with experimental     *)
(* data, tau, dataexp, datacorr and resid have the same length, which is   *)
(* not zero, and resid[i] = dataexp[i] - datacorr[i] at the lag time       *)
(* tau[i], for every startcrop and endcrop the call started with.          *)
C22_PlottedArraysAgree ==
    (AfterPlotAll /\ raised = "none") =>
        /\ Len(tau) > 0
        /\ Len(Exp) = Len(tau)
        /\ datacorr # None /\ Len(datacorr.v) = Len(tau)
        /\ resid # None /\ Len(resid.v) = Len(tau)
        /\ \A i \in 1..Len(tau) :
              /\ datacorr.v[i].x = tau[i]
              /\ resid.v[i].x = tau[i]
              /\ resid.v[i].y = RSub(Exp[i].y, datacorr.v[i].y)

C22_Witness ==
    /\ AfterPlotAll
    /\ raised = "none"
    /\ cropin = <<Some(1), Some(2)>>
    /\ Len(Full) = MaxLen
    /\ Len(resid.v) = 1
    /\ resid.v[1].y = RSub(Full[2].y, datacorr.v[1].y)

(* C23: on a page without experimental data and with a taufull that is not *)
(* empty, PlotAll returns for all integers startcrop and endcrop, equal    *)
(* ones and startcrop > endcrop included, and leaves a tau that is not     *)
(* empty and is taufull[startcrop:endcrop] of the stored interval.         *)
C23_NoDataPlotAllCompletes ==
    (op = "PlotAll" /\ ~HasData /\ taufull # <<>>
       /\ None \notin {cropin[1], cropin[2]}) =>
        /\ raised = "none"
        /\ tau # <<>>
        /\ tau = PySlice(taufull, startcrop, endcrop)

-----------------------------------------------------------------------------
(* The busy cursor: properties of Fit_function *)

(* C24: every Fit_function invocation that began the busy cursor has ended *)
(* it when control is back at the caller, whether the fit succeeded, the   *)
(* solver raised ValueError or another exception was raised.               *)
C24_BusyCursorEnded ==
    phase = "Idle" => busy = 0

-----------------------------------------------------------------------------
(* The stored chi squared: properties of PlotAll and Fit_function *)

(* C25: after every PlotAll (Apply) and every fit on a page with           *)
(* experimental data, chi2 is the chi squared of the parameter values the  *)
(* page has now and of the cropped, corrected data it has now.             *)
C25_Chi2IsCurrent ==
    (phase = "Idle" /\ HasData /\ raised = "none"
       /\ op \in {"PlotAll", "Fit_function"}) =>
        /\ chi2 # None
        /\ chi2.v.values = parms
        /\ chi2.v.data = Exp

-----------------------------------------------------------------------------
(* The variance controls: properties of Fit_WeightedFitCheck *)

(* C26: whatever items of the weights box were selected, texts typed into  *)
(* it and fits started, the variance controls (Fitbox[2] to Fitbox[5]) are *)
(* enabled exactly when the selection of the weights box is not 0, and     *)
(* they are enabled whenever a fit with a spline or model function         *)
(* weighting has read its half-width from Fitbox[5].                       *)
C26_VarianceControlsFollowSelection ==
    /\ varenabled <=> weightedfitdrop.selection # 0
    /\ (Fitting # None /\ Fitting.v.fittype.kind # "default") => varenabled

-----------------------------------------------------------------------------
(* The info of a page: properties of GetPageInfo *)

(* the values the fitting list of the info has for a label *)
FittingValues(label) ==
    LET f == InfoDict.v["fitting"]
    IN  {f[i][2] : i \in {k \in 1..Len(f) : f[k][1] = label}}

(* C27: for a page with experimental data on which a spline or model       *)
(* function weighting is selected with half-width n, the fitting list of   *)
(* GetPageInfo has the entry "No. channels" with the value 2*n + 1; for a  *)
(* page with "No weights" it has no such entry.                            *)
C27_NoChannelsReported ==
    (op = "GetPageInfo" /\ InfoDict # None /\ dataexp # NoRef) =>
        IF weightedfitdrop.selection \in {1, 2}
        THEN FittingValues("No. channels") = {PyNum(2 * fitspin + 1)}
        ELSE weightedfitdrop.selection = 0 =>
                FittingValues("No. channels") = {}

====
